---- MODULE Spec2Model ----
(***************************************************************************)
(* Model of src/Midterm/GAMT.py: GrowthAccountingAnalyzer.                 *)
(*                                                                         *)
(* The analyzer fetches five World Bank indicators into self.data          *)
(* (fetch_all_data), then create_analysis_table calls estimate_tfp_growth  *)
(* and builds the final table with its "Average" row.                      *)
(*                                                                         *)
(* Numbers: Python floats are modelled as exact rationals n/d (d > 0, in   *)
(* lowest terms) plus the three non-finite floats nan, +inf and -inf that  *)
(* a float division by zero produces in a pandas Series.  The rounding     *)
(* error of binary floating point is not computed.  The one step whose     *)
(* outcome depends on it is round(2) of a value exactly halfway between    *)
(* two hundredths: round2 takes the outcome as an argument.  For the rows  *)
(* of create_sample_data, the only frame that reaches the rounding, the    *)
(* outcomes are those of the doubles of the sample numbers; for any other  *)
(* frame both outcomes of every tie are behaviours.                        *)
(*                                                                         *)
(* pandas is not pinned by the repository.  The chained                    *)
(* result[col].fillna(v, inplace=True) writes through to `result` without  *)
(* copy-on-write (pandas < 3.0) and leaves it unchanged with copy-on-write *)
(* (pandas >= 3.0); copy_on_write says which pandas runs the program.      *)
(*                                                                         *)
(* The module also models src/HPfilterTask/HPFilterUS.py, the script that  *)
(* drops the missing observations of a FRED series, takes logs and calls   *)
(* statsmodels' hpfilter once for every lambda of its list (SpecHP).       *)
(***************************************************************************)
EXTENDS Integers, Sequences, FiniteSets, TLC

VARIABLES
    pc,             \* position of main(): "fetch", "oecd", "fetched", "done"
    idx,            \* index into indicators of the next key fetch_all_data fetches
    data,           \* self.data: key -> table (set of records)
    path,           \* exit taken by estimate_tfp_growth
    result,         \* the local frame `result` of estimate_tfp_growth / create_sample_data
    analysis_data,  \* what estimate_tfp_growth handed back to create_analysis_table
    final_table,    \* what create_analysis_table handed back to main
    raised,         \* exception that escaped create_analysis_table ("" if none)
    last_df,        \* fetch_all_data's local df: what the last World Bank fetch returned
    copy_on_write,  \* the installed pandas has copy-on-write (pandas >= 3.0)
    hp_pc,          \* position of HPFilterUS.py: "off", "dropna", "log", "filter", "plot"
    fred_series,    \* what fred.get_series('GDPC1') returned
    gdp_data,       \* HPFilterUS.py's gdp_data
    log_gdp,        \* HPFilterUS.py's log_gdp
    lam_idx,        \* index into lambdas of the next lam of the for loop
    trends,         \* HPFilterUS.py's dict trends: lam -> series
    cycles          \* HPFilterUS.py's dict cycles: lam -> series

analyzer_vars ==
    <<pc, idx, data, path, result, analysis_data, final_table, raised, last_df,
      copy_on_write>>

hp_vars == <<hp_pc, fred_series, gdp_data, log_gdp, lam_idx, trends, cycles>>

vars == <<analyzer_vars, hp_vars>>

----------------------------------------------------------------------------
(* Floats *)

RECURSIVE GCD(_, _)
GCD(a, b) == IF b = 0 THEN a ELSE GCD(b, a % b)

Abs(x) == IF x < 0 THEN -x ELSE x

\* the finite float n/d, normalised
F(n, d) ==
    LET s == IF d < 0 THEN -1 ELSE 1
        g == GCD(Abs(n), Abs(d))
    IN  [k |-> "fin", n |-> (s * n) \div g, d |-> (s * d) \div g]

Num(i) == F(i, 1)
NaN  == [k |-> "nan",  n |-> 0, d |-> 1]
PInf == [k |-> "inf",  n |-> 1, d |-> 1]
NInf == [k |-> "inf",  n |-> -1, d |-> 1]

IsFin(x) == x.k = "fin"
IsNaN(x) == x.k = "nan"

\* sign of a float that is not nan: -1, 0, 1
Sgn(x) == IF x.n < 0 THEN -1 ELSE IF x.n > 0 THEN 1 ELSE 0

\* x < y on floats (False whenever one side is nan, as in IEEE 754)
Less(x, y) ==
    CASE IsNaN(x) \/ IsNaN(y) -> FALSE
      [] IsFin(x) /\ IsFin(y) -> x.n * y.d < y.n * x.d
      [] IsFin(x)             -> y.n > 0
      [] IsFin(y)             -> x.n < 0
      [] OTHER                -> x.n < y.n

Add(x, y) ==
    CASE IsNaN(x) \/ IsNaN(y) -> NaN
      [] IsFin(x) /\ IsFin(y) -> F(x.n * y.d + y.n * x.d, x.d * y.d)
      [] IsFin(x)             -> y
      [] IsFin(y)             -> x
      [] OTHER                -> IF x.n = y.n THEN x ELSE NaN

Neg(x) == IF IsNaN(x) THEN NaN ELSE [x EXCEPT !.n = -x.n]

Sub(x, y) == Add(x, Neg(y))

Mul(x, y) ==
    CASE IsNaN(x) \/ IsNaN(y) -> NaN
      [] IsFin(x) /\ IsFin(y) -> F(x.n * y.n, x.d * y.d)
      [] OTHER                ->
            IF Sgn(x) * Sgn(y) = 0 THEN NaN
            ELSE IF Sgn(x) * Sgn(y) > 0 THEN PInf ELSE NInf

\* float division as numpy does it on a Series: x/0 is +inf or -inf, 0/0 is nan
Div(x, y) ==
    CASE IsNaN(x) \/ IsNaN(y) -> NaN
      [] IsFin(x) /\ IsFin(y) ->
            IF y.n # 0 THEN F(x.n * y.d, x.d * y.n)
            ELSE IF x.n = 0 THEN NaN
            ELSE IF x.n > 0 THEN PInf ELSE NInf
      [] IsFin(x)             -> Num(0)
      [] IsFin(y)             -> IF Sgn(x) * (IF y.n < 0 THEN -1 ELSE 1) > 0
                                 THEN PInf ELSE NInf
      [] OTHER                -> NaN

----------------------------------------------------------------------------
(* pandas helpers *)

RECURSIVE SumSeq(_)
SumSeq(s) == IF s = <<>> THEN Num(0) ELSE Add(Head(s), SumSeq(Tail(s)))

NotNaN(x) == ~IsNaN(x)

\* Series.mean(): the arithmetic mean of the values that are not nan; nan if
\* there is none
mean(s) ==
    LET v == SelectSeq(s, NotNaN)
    IN  IF v = <<>> THEN NaN ELSE Div(SumSeq(v), Num(Len(v)))

\* Series.fillna(value) on one cell
fillna(x, value) == IF IsNaN(x) THEN value ELSE x

\* result[col].fillna(value, inplace=True) on one cell of the column of
\* result: with copy-on-write result[col] is a new object and result keeps
\* the cell as it was
fillna_inplace(x, value, cow) == IF cow THEN x ELSE fillna(x, value)

\* Series.clip(lower, upper) on one cell: nan stays nan
clip(x, lower, upper) ==
    IF Less(x, lower) THEN lower ELSE IF Less(upper, x) THEN upper ELSE x

\* floor of the rational n/d, d > 0
Floor(n, d) == IF n >= 0 THEN n \div d ELSE -((-n + d - 1) \div d)

\* x is exactly halfway between two hundredths
IsTie(x) == IsFin(x) /\ 2 * ((x.n * 100) % x.d) = x.d

\* Series.round(2) on one cell, rint(x * 100.0) / 100.0: to the nearest
\* hundredth.  The cell is a double computed from inexact operands, so at a
\* tie of the exact value the double product lies below, on or above the
\* half: the tie goes to the upper hundredth iff rint of the double product
\* does (`above`).  nan and the infinities are left as they are.
round2(x, above) ==
    IF ~IsFin(x) THEN x
    ELSE LET n100 == x.n * 100
             fl   == Floor(n100, x.d)
             rem2 == 2 * (n100 - fl * x.d)      \* twice the remainder, in 1/d
             up   == \/ rem2 > x.d
                     \/ rem2 = x.d /\ above
         IN  F(IF up THEN fl + 1 ELSE fl, 100)

\* Seq of the members of a finite set of integers, ascending
RECURSIVE SortInts(_)
SortInts(S) ==
    IF S = {} THEN <<>>
    ELSE LET m == CHOOSE x \in S : \A y \in S : x <= y
         IN  <<m>> \o SortInts(S \ {m})

----------------------------------------------------------------------------
(* Constants of GrowthAccountingAnalyzer *)

\* self.countries
countries ==
    << "AUS", "AUT", "BEL", "CAN", "DNK", "FIN", "FRA", "DEU", "GRC",
       "ISL", "IRL", "ITA", "JPN", "NLD", "NZL", "NOR", "PRT", "ESP",
       "SWE", "CHE", "GBR", "USA" >>

Range(s) == {s[i] : i \in 1..Len(s)}

\* self.country_names
country_names ==
    [c \in Range(countries) |->
        CASE c = "AUS" -> "Australia"   [] c = "AUT" -> "Austria"
          [] c = "BEL" -> "Belgium"     [] c = "CAN" -> "Canada"
          [] c = "DNK" -> "Denmark"     [] c = "FIN" -> "Finland"
          [] c = "FRA" -> "France"      [] c = "DEU" -> "Germany"
          [] c = "GRC" -> "Greece"      [] c = "ISL" -> "Iceland"
          [] c = "IRL" -> "Ireland"     [] c = "ITA" -> "Italy"
          [] c = "JPN" -> "Japan"       [] c = "NLD" -> "Netherlands"
          [] c = "NZL" -> "New Zealand" [] c = "NOR" -> "Norway"
          [] c = "PRT" -> "Portugal"    [] c = "ESP" -> "Spain"
          [] c = "SWE" -> "Sweden"      [] c = "CHE" -> "Switzerland"
          [] c = "GBR" -> "United Kingdom"
          [] c = "USA" -> "United States"]

\* the keys of `indicators` in fetch_all_data, in dict order
indicators ==
    << "gdp_growth", "gdp_per_capita_growth", "gross_capital_formation",
       "labor_force_growth", "employment_growth" >>

\* groupby('country_code') sorts its groups by key: the country codes in
\* ascending string order
sorted_codes ==
    << "AUS", "AUT", "BEL", "CAN", "CHE", "DEU", "DNK", "ESP", "FIN",
       "FRA", "GBR", "GRC", "IRL", "ISL", "ITA", "JPN", "NLD", "NOR",
       "NZL", "PRT", "SWE", "USA", "XXX" >>

start_year == 1990
end_year == 2019

\* capital_share = 0.35, labor_share = 1 - capital_share
capital_share == F(35, 100)
labor_share == Sub(Num(1), capital_share)

\* the constants of the two fillna calls and of the `= 1.0` column
typical_capital_growth == Num(3)
typical_labor_growth == Num(1)

clip_lower == F(-1, 2)
clip_upper == F(3, 2)

----------------------------------------------------------------------------
(* Inputs: what the World Bank API may answer *)

\* the most records self.data holds in one run, all keys together
MaxRecords == 3

\* years that occur in answers: one before the window, two inside it
Years == {1985, 2000, 2010}

\* the observations an answer may hold, for the three series the estimation
\* reads: every year of FRA, one year of DEU (two canonical countries whose
\* order in self.countries differs from their string order) and one year of
\* XXX (not in self.countries); for the two series it does not read: one
\* observation
Cells(key) ==
    IF key \in {"gdp_growth", "gross_capital_formation", "employment_growth"}
    THEN ({"FRA"} \X Years) \cup {<<"DEU", 2000>>, <<"XXX", 2000>>}
    ELSE {<<"FRA", 2000>>}

Values(key) ==
    CASE key = "gdp_growth"              -> {-2, 2, 3}
      [] key = "gross_capital_formation" -> {1, 4}
      [] key = "employment_growth"       -> {50, 60}
      [] OTHER                           -> {2}

\* a record of a table: country_code, year and value of one observation
Rec(c, y, v) == [country_code |-> c, year |-> y, value |-> v]

OneObservationPerCell(T) ==
    \A r1, r2 \in T :
        (r1.country_code = r2.country_code /\ r1.year = r2.year) => r1 = r2

\* the tables an answer can hold for each key (one observation per country
\* and year), by the room left in the store
Tables ==
    [key \in Range(indicators) |->
        [room \in 0..MaxRecords |->
            {T \in SUBSET {Rec(cell[1], cell[2], v) :
                              cell \in Cells(key), v \in Values(key)} :
                Cardinality(T) <= room /\ OneObservationPerCell(T)}]]

RECURSIVE Stored(_, _)
Stored(d, keys) ==
    IF keys = {} THEN 0
    ELSE LET k == CHOOSE k \in keys : TRUE
         IN  Cardinality(d[k]) + Stored(d, keys \ {k})

\* a record of an answer: record['value'] is None when null is TRUE
Raw(c, y, v, isnull) ==
    [country_code |-> c, year |-> y, value |-> v, null |-> isnull]

\* the null-valued record an answer may carry besides its observations
NullRecord == Raw("DEU", 2019, 0, TRUE)

\* an answer of the API: the request failed ("error"), the JSON has no second
\* element ("nodata"), or it lists records ("ok"): the observations of T
\* and, when withnull, a record whose value is null
Response(status, T, withnull) ==
    [status |-> status,
     records |-> IF status = "ok"
                 THEN {Raw(r.country_code, r.year, r.value, FALSE) : r \in T}
                      \cup (IF withnull THEN {NullRecord} ELSE {})
                 ELSE {}]

----------------------------------------------------------------------------
(* fetch_world_bank_data, fetch_oecd_productivity_data *)

\* fetch_world_bank_data without the `is not None` test
fetch_world_bank_data_keep_null(resp) ==
    IF resp.status = "error" THEN {}
    ELSE IF resp.status = "nodata" THEN {}
    ELSE {Rec(r.country_code, r.year, r.value) : r \in resp.records}

\* The DataFrame fetch_world_bank_data returns for an answer: the records
\* whose value is not None; the empty DataFrame ({}) when the request raised,
\* when the JSON has a single element, or when no record has a value.
fetch_world_bank_data(resp) ==
    IF resp.status = "error" THEN {}
    ELSE IF resp.status = "nodata" THEN {}
    ELSE {Rec(r.country_code, r.year, r.value) : r \in {q \in resp.records : ~q.null}}

\* fetch_oecd_productivity_data returns an empty DataFrame on every path
fetch_oecd_productivity_data(status) == {}

----------------------------------------------------------------------------
(* estimate_tfp_growth *)

InCountries(c) == \E i \in 1..Len(countries) : countries[i] = c

\* the period filter without the isin(self.countries) condition
filter_period_any_country(df) ==
    {r \in df : r.year >= start_year /\ r.year <= end_year}

\* df[(year >= 1990) & (year <= 2019) & country_code.isin(self.countries)]
filter_period(df) ==
    {r \in df : r.year >= start_year /\ r.year <= end_year /\ InCountries(r.country_code)}

\* df[country_code.isin(self.countries)]
filter_countries(df) == {r \in df : InCountries(r.country_code)}

\* the choice between the period and all years made for each country apart
filtered_per_country(df) ==
    {r \in filter_countries(df) :
        \/ r \in filter_period(df)
        \/ ~\E q \in filter_period(df) : q.country_code = r.country_code}

\* the period filter, or all available years when it leaves nothing
filtered(df) ==
    IF filter_period(df) # {} THEN filter_period(df) ELSE filter_countries(df)

\* the values of country c in df, in year order
group_values(df, c) ==
    LET yrs == SortInts({r.year : r \in {q \in df : q.country_code = c}})
    IN  [i \in 1..Len(yrs) |->
            Num((CHOOSE r \in df : r.country_code = c /\ r.year = yrs[i]).value)]

\* the group keys in the order of self.countries
group_keys_canonical(df) ==
    SelectSeq(countries, LAMBDA c : \E r \in df : r.country_code = c)

\* the group keys of df.groupby('country_code'), sorted
group_keys(df) ==
    SelectSeq(sorted_codes, LAMBDA c : \E r \in df : r.country_code = c)

\* df.groupby('country_code')['value'].mean().reset_index()
groupby_mean(df) ==
    LET ks == group_keys(df)
    IN  [i \in 1..Len(ks) |->
            [country_code |-> ks[i], value |-> mean(group_values(df, ks[i]))]]

\* calculate_growth_rates for one country: pct_change() * 100 of its values in
\* year order, nan for the first one
growth_rate(v) ==
    [i \in 1..Len(v) |->
        IF i = 1 THEN NaN
        ELSE Mul(Sub(Div(v[i], v[i - 1]), Num(1)), Num(100))]

\* calculate_growth_rates(df) followed by groupby('country_code')['growth_rate'].mean()
groupby_growth_mean(df) ==
    LET ks == group_keys(df)
    IN  [i \in 1..Len(ks) |->
            [country_code |-> ks[i],
             value |-> mean(growth_rate(group_values(df, ks[i])))]]

\* the frame averaged from self.data[key]; empty when the key is absent
\* or no record is of a canonical country
capital_growth_frame(d) ==
    IF "gross_capital_formation" \notin DOMAIN d THEN <<>>
    ELSE groupby_mean(filtered(d["gross_capital_formation"]))

labor_growth_frame(d) ==
    IF "employment_growth" \notin DOMAIN d THEN <<>>
    ELSE groupby_growth_mean(filtered(d["employment_growth"]))

\* the column `col` brings to country c in result.merge(other, how='left'):
\* nan when other has no row for c
merge_left(other, c) ==
    IF \E i \in 1..Len(other) : other[i].country_code = c
    THEN other[CHOOSE i \in 1..Len(other) : other[i].country_code = c].value
    ELSE NaN

\* avg_capital_growth of country c after the merge (or the nan column) and
\* the chained fillna(3.0, inplace=True)
avg_capital_growth(capital_growth, c, cow) ==
    fillna_inplace(IF capital_growth # <<>> THEN merge_left(capital_growth, c) ELSE NaN,
                   typical_capital_growth, cow)

\* avg_labor_growth of country c after the merge (or the 1.0 column) and the
\* chained fillna(1.0, inplace=True)
avg_labor_growth(labor_growth, c, cow) ==
    fillna_inplace(IF labor_growth # <<>> THEN merge_left(labor_growth, c)
                   ELSE typical_labor_growth,
                   typical_labor_growth, cow)

\* the residual with the two shares exchanged
tfp_growth_swapped(g, k, l) ==
    Sub(Sub(g, Mul(labor_share, k)), Mul(capital_share, l))

\* g_A = g_Y - alpha * g_K - (1 - alpha) * g_L
tfp_growth(g, k, l) == Sub(Sub(g, Mul(capital_share, k)), Mul(labor_share, l))

capital_deepening(k, l) == Sub(k, l)

\* 'Clean up extreme values'
clip_share(x) == clip(x, clip_lower, clip_upper)

\* tfp_share and capital_share of estimate_tfp_growth: the ratio to
\* avg_gdp_growth, clipped
estimated_share(x, g) == clip_share(Div(x, g))

\* tfp_share and capital_share of create_sample_data: the ratio alone
sample_share(x, g) == Div(x, g)

\* one row of `result`
Row(c, g, k, l, ts, cs) ==
    [country_code |-> c, avg_gdp_growth |-> g, avg_capital_growth |-> k,
     avg_labor_growth |-> l, tfp_growth |-> tfp_growth(g, k, l),
     capital_deepening |-> capital_deepening(k, l),
     tfp_share |-> ts, capital_share |-> cs]

estimated_row(c, g, k, l) ==
    Row(c, g, k, l, estimated_share(tfp_growth(g, k, l), g),
        estimated_share(capital_deepening(k, l), g))

\* `result` at the end of estimate_tfp_growth, from the filtered GDP growth
\* records and the two optional frames
estimated_result(gdp_filtered, capital_growth, labor_growth, cow) ==
    LET avg_gdp_growth == groupby_mean(gdp_filtered)
    IN  [i \in 1..Len(avg_gdp_growth) |->
            LET c == avg_gdp_growth[i].country_code
            IN  estimated_row(c, avg_gdp_growth[i].value,
                              avg_capital_growth(capital_growth, c, cow),
                              avg_labor_growth(labor_growth, c, cow))]

----------------------------------------------------------------------------
(* create_sample_data *)

\* sample_data, in dict order: code, then gdp, capital, labor in tenths
sample_data ==
    << <<"AUS", 28, 35, 15>>, <<"AUT", 21, 28,  8>>, <<"BEL", 20, 25,  7>>,
       <<"CAN", 23, 30, 12>>, <<"DNK", 19, 23,  5>>, <<"FIN", 25, 28,  3>>,
       <<"FRA", 18, 24,  7>>, <<"DEU", 14, 18,  2>>, <<"GRC", 12, 25,  5>>,
       <<"ISL", 28, 40, 18>>, <<"IRL", 52, 68, 21>>, <<"ITA", 11, 20,  4>>,
       <<"JPN", 12, 15, -2>>, <<"NLD", 24, 28, 10>>, <<"NZL", 28, 35, 15>>,
       <<"NOR", 29, 38, 12>>, <<"PRT", 28, 42,  8>>, <<"ESP", 27, 45, 20>>,
       <<"SWE", 24, 29,  5>>, <<"CHE", 18, 22,  8>>, <<"GBR", 25, 28,  8>>,
       <<"USA", 25, 32, 12>> >>

sample_row(c, g, k, l) ==
    Row(c, g, k, l, sample_share(tfp_growth(g, k, l), g),
        sample_share(capital_deepening(k, l), g))

\* the DataFrame create_sample_data returns
create_sample_data ==
    [i \in 1..Len(sample_data) |->
        sample_row(sample_data[i][1], F(sample_data[i][2], 10),
                   F(sample_data[i][3], 10), F(sample_data[i][4], 10))]

----------------------------------------------------------------------------
(* estimate_tfp_growth: its exits *)

\* a Python value handed back by a method: a DataFrame with its rows, or None
DataFrame(rows) == [kind |-> "DataFrame", rows |-> rows]
None == [kind |-> "None", rows |-> <<>>]

\* what estimate_tfp_growth hands back once `result` is complete: the
\* function body ends after the two clip calls
estimated_return(res) == None

\* path: the exit taken; result: the frame built; ret: the value handed back
estimate_tfp_growth(d, cow) ==
    IF "gdp_growth" \notin DOMAIN d
    THEN [path |-> "no_gdp_growth", result |-> <<>>, ret |-> DataFrame(<<>>)]
    ELSE IF filtered(d["gdp_growth"]) = {}
    THEN [path |-> "sample", result |-> create_sample_data,
          ret |-> DataFrame(create_sample_data)]
    ELSE LET res == estimated_result(filtered(d["gdp_growth"]),
                                     capital_growth_frame(d), labor_growth_frame(d), cow)
         IN  [path |-> "estimated", result |-> res, ret |-> estimated_return(res)]

----------------------------------------------------------------------------
(* create_analysis_table *)

numeric_columns ==
    <<"Growth_Rate", "TFP_Growth", "Capital_Deepening", "TFP_Share", "Capital_Share">>

\* the column of analysis_data a column of final_table is rounded from
analysis_column ==
    [Growth_Rate |-> "avg_gdp_growth", TFP_Growth |-> "tfp_growth",
     Capital_Deepening |-> "capital_deepening", TFP_Share |-> "tfp_share",
     Capital_Share |-> "capital_share"]

\* row i of final_table before the Average row is added; `above` holds the
\* cells <<i, column>> that are ties rounded to the upper hundredth
table_row(r, i, above) ==
    [Country |-> IF r.country_code \in DOMAIN country_names
                 THEN country_names[r.country_code] ELSE "NaN",
     Growth_Rate |-> round2(r.avg_gdp_growth, <<i, "Growth_Rate">> \in above),
     TFP_Growth |-> round2(r.tfp_growth, <<i, "TFP_Growth">> \in above),
     Capital_Deepening |-> round2(r.capital_deepening, <<i, "Capital_Deepening">> \in above),
     TFP_Share |-> round2(r.tfp_share, <<i, "TFP_Share">> \in above),
     Capital_Share |-> round2(r.capital_share, <<i, "Capital_Share">> \in above)]

HasCountry(r) == r.Country # "NaN"

\* final_table after dropna(subset=['Country'])
rounded_rows(rows, above) ==
    SelectSeq([i \in 1..Len(rows) |-> table_row(rows[i], i, above)], HasCountry)

\* final_table[col].mean()
column_mean(t, col) == mean([i \in 1..Len(t) |-> t[i][col]])

\* the 'Average' row, from the rows of final_table
avg_row(t) ==
    [Country |-> "Average",
     Growth_Rate |-> column_mean(t, "Growth_Rate"),
     TFP_Growth |-> column_mean(t, "TFP_Growth"),
     Capital_Deepening |-> column_mean(t, "Capital_Deepening"),
     TFP_Share |-> column_mean(t, "TFP_Share"),
     Capital_Share |-> column_mean(t, "Capital_Share")]

\* final_table.round(2) on one row; `above` holds the columns that are
\* ties rounded to the upper hundredth
round_row(r, above) ==
    [Country |-> r.Country,
     Growth_Rate |-> round2(r.Growth_Rate, "Growth_Rate" \in above),
     TFP_Growth |-> round2(r.TFP_Growth, "TFP_Growth" \in above),
     Capital_Deepening |-> round2(r.Capital_Deepening, "Capital_Deepening" \in above),
     TFP_Share |-> round2(r.TFP_Share, "TFP_Share" \in above),
     Capital_Share |-> round2(r.Capital_Share, "Capital_Share" \in above)]

\* the cells of analysis_data that are ties
OpenCells(rows) ==
    {cell \in (1..Len(rows)) \X Range(numeric_columns) :
        IsTie(rows[cell[1]][analysis_column[cell[2]]])}

\* the columns whose mean over the rounded rows is a tie
OpenAverageColumns(rows, above) ==
    {col \in Range(numeric_columns) :
        IsTie(avg_row(rounded_rows(rows, above))[col])}

\* The ties of the sample rows that round(2) takes to the upper
\* hundredth, by row of sample_data.  In doubles:
\*   BEL tfp_share  0.67 / 2.0                    = 0.335,  x 100.0 = 33.5  -> 0.34
\*   FRA tfp_growth 1.8 - 0.35 * 2.4 - 0.65 * 0.7 = 0.5050000000000001     -> 0.51
\*   IRL tfp_growth 5.2 - 0.35 * 6.8 - 0.65 * 2.1 = 1.455,  x 100.0 = 145.5 -> 1.46
\*   ESP tfp_growth 2.7 - 0.35 * 4.5 - 0.65 * 2.0 = -0.17499999999999982   -> -0.17
\* and to the lower one: FIN tfp_growth 1.325 -> 1.32, JPN tfp_growth 0.805 -> 0.8.
sample_rounds_up ==
    {<<3, "TFP_Share">>, <<7, "TFP_Growth">>, <<11, "TFP_Growth">>, <<18, "TFP_Growth">>}

\* the mean of the 22 rounded TFP_Share cells is the double 0.2850000000000001 -> 0.29
sample_average_rounds_up == {"TFP_Share"}

\* the outcomes of the ties of the rows: those of the doubles for the
\* sample rows, either one for any other frame
RoundsUp(path_taken, rows) ==
    IF path_taken = "sample" THEN {sample_rounds_up} ELSE SUBSET OpenCells(rows)

AverageRoundsUp(path_taken, rows, above) ==
    IF path_taken = "sample" THEN {sample_average_rounds_up}
    ELSE SUBSET OpenAverageColumns(rows, above)

\* the table built from a non-empty analysis_data; the rows rounded once are
\* hundredths, so only the Average row can be a tie in final_table.round(2)
build_final_table(rows, above, avg_above) ==
    LET t == rounded_rows(rows, above)
        all == Append(t, avg_row(t))
    IN  [i \in 1..Len(all) |-> round_row(all[i], IF i = Len(all) THEN avg_above ELSE {})]

\* ret: the value handed back to main; raised: the exception that escapes.
\* `analysis_data.empty` on None raises AttributeError.
create_analysis_table(analysis, above, avg_above) ==
    IF analysis.kind = "None"
    THEN [ret |-> None, raised |-> "AttributeError"]
    ELSE IF analysis.rows = <<>>
    THEN [ret |-> DataFrame(<<>>), raised |-> ""]
    ELSE [ret |-> DataFrame(build_final_table(analysis.rows, above, avg_above)),
          raised |-> ""]

----------------------------------------------------------------------------
(* The run of main() *)

\* the analyzer after GrowthAccountingAnalyzer()
AnalyzerInit ==
    /\ pc = "fetch"
    /\ idx = 1
    /\ data = <<>>
    /\ path = "not_run"
    /\ result = <<>>
    /\ analysis_data = None
    /\ final_table = None
    /\ raised = ""
    /\ last_df = {}
    /\ copy_on_write \in BOOLEAN

\* HPFilterUS.py is a separate script: it does not run in a run of main()
HPOff ==
    /\ hp_pc = "off"
    /\ fred_series = <<>>
    /\ gdp_data = <<>>
    /\ log_gdp = <<>>
    /\ lam_idx = 1
    /\ trends = <<>>
    /\ cycles = <<>>

Init == AnalyzerInit /\ HPOff

\* one iteration of the loop of fetch_all_data
FetchWorldBank ==
    /\ pc = "fetch"
    /\ \E status \in {"error", "nodata", "ok"} :
       \E T \in IF status = "ok"
                THEN Tables[indicators[idx]][MaxRecords - Stored(data, DOMAIN data)]
                ELSE {{}} :
       \E withnull \in IF status = "ok" THEN BOOLEAN ELSE {FALSE} :
            LET df == fetch_world_bank_data(Response(status, T, withnull))
            IN  /\ data' = IF df # {} THEN (indicators[idx] :> df) @@ data ELSE data
                /\ last_df' = df
    /\ idx' = idx + 1
    /\ pc' = IF idx = Len(indicators) THEN "oecd" ELSE "fetch"
    /\ UNCHANGED <<path, result, analysis_data, final_table, raised, copy_on_write>>
    /\ UNCHANGED hp_vars

\* the end of fetch_all_data: the OECD request
FetchOecd ==
    /\ pc = "oecd"
    /\ \E status \in {"200", "other", "error"} :
            LET oecd_data == fetch_oecd_productivity_data(status)
            IN  data' = IF oecd_data # {} THEN ("tfp" :> oecd_data) @@ data ELSE data
    /\ pc' = "fetched"
    /\ UNCHANGED <<idx, path, result, analysis_data, final_table, raised, last_df,
                   copy_on_write>>
    /\ UNCHANGED hp_vars

\* analyzer.create_analysis_table(), with its call of estimate_tfp_growth
CreateAnalysisTable ==
    /\ pc = "fetched"
    /\ LET e == estimate_tfp_growth(data, copy_on_write)
       IN  \E above \in RoundsUp(e.path, e.ret.rows) :
           \E avg_above \in AverageRoundsUp(e.path, e.ret.rows, above) :
               LET t == create_analysis_table(e.ret, above, avg_above)
               IN  /\ path' = e.path
                   /\ result' = e.result
                   /\ analysis_data' = e.ret
                   /\ final_table' = t.ret
                   /\ raised' = t.raised
    /\ pc' = "done"
    /\ UNCHANGED <<idx, data, last_df, copy_on_write>>
    /\ UNCHANGED hp_vars

Next == FetchWorldBank \/ FetchOecd \/ CreateAnalysisTable

Spec == Init /\ [][Next]_vars

----------------------------------------------------------------------------
(* src/HPfilterTask/HPFilterUS.py *)

\* A series is a sequence of observations [date, value] in date order.  A
\* GDP level is the float e^n, written Exp(n), so that np.log gives the
\* float n; a missing observation is NaN.
Exp(e) == [k |-> "exp", n |-> e, d |-> 1]

\* longest series fred.get_series returns here
MaxSeriesLen == 5

Observations == {Exp(1), Exp(2), Exp(4), NaN}

Series(f) == [i \in 1..Len(f) |-> [date |-> i, value |-> f[i]]]

\* Series.dropna()
dropna(s) == SelectSeq(s, LAMBDA o : ~IsNaN(o.value))

\* np.log of one float
np_log(x) == IF x.k = "exp" THEN Num(x.n) ELSE NaN

\* np.log(series): element by element, the index is kept
log_series(s) == [i \in 1..Len(s) |-> [date |-> s[i].date, value |-> np_log(s[i].value)]]

\* numbers of observations for which hpfilter is evaluated here
FilterableLengths == {3, 4}

\* the series fred.get_series may return
FredSeries ==
    {s \in {Series(f) : f \in UNION {[1..L -> Observations] : L \in 3..MaxSeriesLen}} :
        Len(dropna(s)) \in FilterableLengths}

\* D y: the second differences of y
second_diff(y) == [j \in 1..(Len(y) - 2) |-> y[j] - 2 * y[j + 1] + y[j + 2]]

\* D' w for a series of N observations
second_diff_T(w, N) ==
    [i \in 1..N |->
        (IF i <= Len(w) THEN w[i] ELSE 0)
        - 2 * (IF i >= 2 /\ i - 1 <= Len(w) THEN w[i - 1] ELSE 0)
        + (IF i >= 3 THEN w[i - 2] ELSE 0)]

\* det(I + lamb D D') for N observations (N - 2 second differences)
hp_det(N, lamb) ==
    IF N = 3 THEN 1 + 6 * lamb
    ELSE (1 + 6 * lamb) * (1 + 6 * lamb) - 16 * lamb * lamb

\* adj(I + lamb D D') d
hp_adj(d, lamb) ==
    IF Len(d) = 1 THEN d
    ELSE << (1 + 6 * lamb) * d[1] + 4 * lamb * d[2],
            4 * lamb * d[1] + (1 + 6 * lamb) * d[2] >>

\* hpfilter(x, lamb): the trend solves (I + lamb D'D) trend = x, that is
\* trend = x - lamb D' (I + lamb D D')^-1 D x, and cycle = x - trend.  Both
\* come back as <<cycle, trend>> on the index of x.
hpfilter(x, lamb) ==
    LET N == Len(x)
        y == [i \in 1..N |-> x[i].value.n]
        det == hp_det(N, lamb)
        c == second_diff_T(hp_adj(second_diff(y), lamb), N)
        trend_n == [i \in 1..N |-> y[i] * det - lamb * c[i]]
        trend == [i \in 1..N |-> [date |-> x[i].date, value |-> F(trend_n[i], det)]]
        cycle == [i \in 1..N |->
                    [date |-> x[i].date, value |-> F(y[i] * det - trend_n[i], det)]]
    IN  <<cycle, trend>>

lambdas == <<10, 100, 1600>>

\* the cycle of every iteration is the one of the first lambda
filter_step_first_cycle(x, lam) ==
    [cycle |-> hpfilter(x, lambdas[1])[1], trend |-> hpfilter(x, lam)[2]]

\* cycle, trend = hpfilter(log_gdp, lam)
filter_step(x, lam) ==
    LET r == hpfilter(x, lam)
    IN  [cycle |-> r[1], trend |-> r[2]]

\* the script after gdp_data = fred.get_series('GDPC1')
HPStart ==
    /\ hp_pc = "dropna"
    /\ fred_series \in FredSeries
    /\ gdp_data = fred_series
    /\ log_gdp = <<>>
    /\ lam_idx = 1
    /\ trends = <<>>
    /\ cycles = <<>>

InitHP == AnalyzerInit /\ HPStart

\* gdp_data = gdp_data.dropna()
DropNa ==
    /\ hp_pc = "dropna"
    /\ gdp_data' = dropna(gdp_data)
    /\ hp_pc' = "log"
    /\ UNCHANGED <<fred_series, log_gdp, lam_idx, trends, cycles>>
    /\ UNCHANGED analyzer_vars

\* log_gdp = np.log(gdp_data), then lambdas, trends and cycles are set up
LogTransform ==
    /\ hp_pc = "log"
    /\ log_gdp' = log_series(gdp_data)
    /\ lam_idx' = 1
    /\ trends' = <<>>
    /\ cycles' = <<>>
    /\ hp_pc' = "filter"
    /\ UNCHANGED <<fred_series, gdp_data>>
    /\ UNCHANGED analyzer_vars

\* one iteration of `for lam in lambdas`
ApplyFilter ==
    /\ hp_pc = "filter"
    /\ LET lam == lambdas[lam_idx]
           r == filter_step(log_gdp, lam)
       IN  /\ trends' = (lam :> r.trend) @@ trends
           /\ cycles' = (lam :> r.cycle) @@ cycles
    /\ lam_idx' = lam_idx + 1
    /\ hp_pc' = IF lam_idx = Len(lambdas) THEN "plot" ELSE "filter"
    /\ UNCHANGED <<fred_series, gdp_data, log_gdp>>
    /\ UNCHANGED analyzer_vars

NextHP == DropNa \/ LogTransform \/ ApplyFilter

SpecHP == InitHP /\ [][NextHP]_vars

----------------------------------------------------------------------------
(* Properties *)

Done == pc = "done"

Rows == 1..Len(result)

\* the canonical countries with a GDP growth record in self.data
OutputGrowthCountries ==
    IF "gdp_growth" \in DOMAIN data
    THEN {r.country_code : r \in filter_countries(data["gdp_growth"])}
    ELSE {}

\* the canonical countries whose GDP growth records the estimation averages
UsableCountries ==
    IF "gdp_growth" \in DOMAIN data
    THEN {r.country_code : r \in filtered(data["gdp_growth"])}
    ELSE {}

\* C1: whenever at least one canonical country has GDP growth data,
\* estimate_tfp_growth hands a non-empty result panel back to
\* create_analysis_table, with one record per such country.
C1_ReturnsPanel ==
    (Done /\ OutputGrowthCountries # {}) =>
        /\ analysis_data.kind = "DataFrame"
        /\ Len(analysis_data.rows) = Cardinality(UsableCountries)
        /\ {analysis_data.rows[i].country_code : i \in 1..Len(analysis_data.rows)}
               = UsableCountries

\* x = g - 0.35 k - 0.65 l, on finite floats, in integers over the common
\* denominator
IsResidual(x, g, k, l) ==
    /\ IsFin(x) /\ IsFin(g) /\ IsFin(k) /\ IsFin(l)
    /\ 100 * x.n * g.d * k.d * l.d
         = x.d * (100 * g.n * k.d * l.d - 35 * k.n * g.d * l.d - 65 * l.n * g.d * k.d)

\* x = k - l, on finite floats, in integers
IsDifference(x, k, l) ==
    /\ IsFin(x) /\ IsFin(k) /\ IsFin(l)
    /\ x.n * k.d * l.d = x.d * (k.n * l.d - l.n * k.d)

\* C2: in every row of the result, of the estimation and of the sample data,
\* tfp_growth = avg_gdp_growth - 0.35 * avg_capital_growth - 0.65 * avg_labor_growth
\* and capital_deepening = avg_capital_growth - avg_labor_growth; where an
\* input of the row is nan both are nan.
C2_Residual ==
    \A i \in Rows :
        IF IsFin(result[i].avg_capital_growth) /\ IsFin(result[i].avg_labor_growth)
        THEN /\ IsResidual(result[i].tfp_growth, result[i].avg_gdp_growth,
                           result[i].avg_capital_growth, result[i].avg_labor_growth)
             /\ IsDifference(result[i].capital_deepening,
                             result[i].avg_capital_growth, result[i].avg_labor_growth)
        ELSE /\ IsNaN(result[i].tfp_growth)
             /\ IsNaN(result[i].capital_deepening)

\* C2 witness: the estimation reached output 2.5, capital 3.0, labor 1.0 for a
\* country, with productivity growth 0.80 and capital deepening 2.0
C2_Witness ==
    /\ Done /\ path = "estimated"
    /\ \E i \in Rows :
        /\ result[i].avg_gdp_growth = [k |-> "fin", n |-> 5, d |-> 2]
        /\ result[i].avg_capital_growth = [k |-> "fin", n |-> 3, d |-> 1]
        /\ result[i].avg_labor_growth = [k |-> "fin", n |-> 1, d |-> 1]
        /\ result[i].tfp_growth = [k |-> "fin", n |-> 4, d |-> 5]
        /\ result[i].capital_deepening = [k |-> "fin", n |-> 2, d |-> 1]

IsZero(x) == x.k = "fin" /\ x.n = 0

\* C3: a country whose output growth is exactly 0 has tfp_share = 0 and
\* capital_share = 0 in the result.
C3_ZeroGuard ==
    \A i \in Rows :
        IsZero(result[i].avg_gdp_growth) =>
            IsZero(result[i].tfp_share) /\ IsZero(result[i].capital_share)

\* -0.5 <= x <= 1.5, on a finite float, in integers
InClipRange(x) == IsFin(x) /\ 2 * x.n >= -x.d /\ 2 * x.n <= 3 * x.d

\* C4: in every result panel, of the estimation and of the sample data, each
\* country's tfp_share and capital_share lie in [-0.5, 1.5].
C4_SharesClamped ==
    \A i \in Rows :
        InClipRange(result[i].tfp_share) /\ InClipRange(result[i].capital_share)

\* the values of a frame of country averages that are not nan
Available(frame) ==
    SelectSeq([i \in 1..Len(frame) |-> frame[i].value], NotNaN)

HasValue(frame, c) ==
    \E i \in 1..Len(frame) : frame[i].country_code = c /\ ~IsNaN(frame[i].value)

\* C5: a country with output growth whose capital (labor) growth is missing,
\* while some country has it, gets the mean of that field over the countries
\* that have it.
C5_CrossCountryMean ==
    path = "estimated" =>
        \A i \in Rows :
            LET c == result[i].country_code
                kf == capital_growth_frame(data)
                lf == labor_growth_frame(data)
            IN  /\ (~HasValue(kf, c) /\ Available(kf) # <<>>) =>
                        result[i].avg_capital_growth = mean(Available(kf))
                /\ (~HasValue(lf, c) /\ Available(lf) # <<>>) =>
                        result[i].avg_labor_growth = mean(Available(lf))

\* C6: when no country has capital growth, every included country gets 3.0;
\* when no country has labor growth, every included country gets 1.0; a
\* missing field drops no country and leaves no undefined value: both inputs,
\* tfp_growth and capital_deepening are finite numbers, and a share is
\* undefined only where output growth is 0.
C6_ConstantFallback ==
    path = "estimated" =>
        /\ Len(result) = Cardinality(UsableCountries)
        /\ Available(capital_growth_frame(data)) = <<>> =>
              \A i \in Rows :
                  result[i].avg_capital_growth = [k |-> "fin", n |-> 3, d |-> 1]
        /\ Available(labor_growth_frame(data)) = <<>> =>
              \A i \in Rows :
                  result[i].avg_labor_growth = [k |-> "fin", n |-> 1, d |-> 1]
        /\ \A i \in Rows :
              /\ IsFin(result[i].avg_capital_growth)
              /\ IsFin(result[i].avg_labor_growth)
              /\ IsFin(result[i].tfp_growth)
              /\ IsFin(result[i].capital_deepening)
              /\ (~IsFin(result[i].tfp_share) \/ ~IsFin(result[i].capital_share))
                    => IsZero(result[i].avg_gdp_growth)

\* C7: with no usable output-growth data for any canonical country the
\* estimation ends in an explicit error: no DataFrame is handed back, neither
\* an empty one nor the sample data.
C7_ExplicitError ==
    (Done /\ OutputGrowthCountries = {}) =>
        raised # "" /\ analysis_data.kind # "DataFrame"

\* C8: every country of the result estimated from the fetched data is a
\* canonical country with a GDP growth record.
C8_OnlyOutputGrowthCountries ==
    path = "estimated" =>
        \A i \in Rows : result[i].country_code \in OutputGrowthCountries

HasRecord(key, c) ==
    key \in DOMAIN data /\ \E r \in data[key] : r.country_code = c

\* C8 witness: an estimation where DEU has capital data but no GDP growth
\* record, and the GDP growth data hold a record of a country outside
\* self.countries
C8_Witness ==
    /\ Done /\ path = "estimated" /\ result # <<>>
    /\ HasRecord("gross_capital_formation", "DEU")
    /\ ~HasRecord("gdp_growth", "DEU")
    /\ HasRecord("gdp_growth", "XXX")

Column(rows, col) == [i \in 1..Len(rows) |-> rows[i][col]]

\* C9: each field of the 'Average' row is the arithmetic mean of the field's
\* per-country values as computed, with no rounding of the values averaged.
C9_AverageExact ==
    (Done /\ final_table.kind = "DataFrame" /\ final_table.rows # <<>>) =>
        LET avg == final_table.rows[Len(final_table.rows)]
        IN  /\ avg.Country = "Average"
            /\ avg.TFP_Growth = mean(Column(result, "tfp_growth"))
            /\ avg.Capital_Deepening = mean(Column(result, "capital_deepening"))
            /\ avg.TFP_Share = mean(Column(result, "tfp_share"))
            /\ avg.Capital_Share = mean(Column(result, "capital_share"))

\* position of a code in a sequence of codes
Rank(codes, c) == CHOOSE i \in 1..Len(codes) : codes[i] = c

\* C10: the records of the result are in the order of self.countries.
C10_CanonicalOrder ==
    \A i, j \in Rows :
        i < j => Rank(countries, result[i].country_code)
                    < Rank(countries, result[j].country_code)

\* C10 as amended: the records estimated from the fetched data are in
\* ascending order of country code, and the sample records in the order of
\* self.countries.
C10_SortedOrder ==
    /\ path = "estimated" =>
          \A i, j \in Rows :
              i < j => Rank(sorted_codes, result[i].country_code)
                          < Rank(sorted_codes, result[j].country_code)
    /\ path = "sample" =>
          [i \in Rows |-> result[i].country_code] = countries

\* C10 witness: an estimation with two countries, DEU before FRA
C10_Witness ==
    /\ Done /\ path = "estimated" /\ Len(result) = 2
    /\ result[1].country_code = "DEU" /\ result[2].country_code = "FRA"

\* the answers of a fetch that fails: the request raised, the JSON has no
\* second element, no record at all, only null-valued records
FailingResponses ==
    {Response("error", {}, FALSE), Response("nodata", {}, FALSE),
     Response("ok", {}, FALSE), Response("ok", {}, TRUE)}

\* the key the last iteration of the loop of fetch_all_data fetched
LastKey == indicators[idx - 1]

\* C13: at every point of fetch_all_data and after it, every key of self.data
\* is one of the indicator keys (never 'tfp') and maps to a non-empty table
\* whose records all come from records with a value; a failing fetch
\* returns an empty table, and then self.data has no entry for its key, while
\* a fetch that returns records stores exactly these; nothing is raised.
C13_StoreHoldsData ==
    /\ \A key \in DOMAIN data :
          /\ key \in Range(indicators)
          /\ data[key] # {}
          /\ \A r \in data[key] :
                \E c \in Cells(key), v \in Values(key) : r = Rec(c[1], c[2], v)
    /\ "tfp" \notin DOMAIN data
    /\ \A resp \in FailingResponses : fetch_world_bank_data(resp) = {}
    /\ idx > 1 =>
          /\ last_df = {} <=> LastKey \notin DOMAIN data
          /\ last_df # {} => data[LastKey] = last_df
    /\ pc \in {"fetch", "oecd", "fetched"} => raised = ""

\* C13 witness: fetch_all_data is over, the first fetch stored its records
\* and the last one failed, leaving no entry for its key
C13_Witness ==
    /\ pc = "fetched"
    /\ "gdp_growth" \in DOMAIN data
    /\ last_df = {}
    /\ "employment_growth" \notin DOMAIN data

\* the records of canonical countries that a series is averaged over: those
\* of 1990..2019 when there is one, else those of all years
Chosen(key) ==
    LET canon == {r \in data[key] : r.country_code \in Range(countries)}
        window == {r \in canon : r.year >= 1990 /\ r.year <= 2019}
    IN  IF window # {} THEN window ELSE canon

ChosenOf(key, c) ==
    IF key \in DOMAIN data THEN {r \in Chosen(key) : r.country_code = c} ELSE {}

RECURSIVE SumValues(_)
SumValues(S) ==
    IF S = {} THEN 0
    ELSE LET r == CHOOSE r \in S : TRUE IN r.value + SumValues(S \ {r})

\* x is the arithmetic mean of the values of the records S, in integers
IsMeanOf(x, S) == IsFin(x) /\ x.n * Cardinality(S) = x.d * SumValues(S)

\* C14: each series is averaged over its records of canonical countries of
\* 1990..2019 when it has one, and over those of all years only when it has
\* none; the choice is made for the series as a whole: a country has a row
\* exactly when the chosen GDP growth records hold one of its records, its
\* output and capital growth are the means of its chosen records alone, and
\* its labor growth is the mean growth rate between its chosen employment
\* records.  A field with no chosen record of the country holds what the
\* chained fillna leaves: the constant, or nan under copy-on-write (the labor
\* column is the constant when the series has no chosen record at all).
C14_WindowPerSeries ==
    path = "estimated" =>
        /\ {result[i].country_code : i \in Rows}
              = {c \in Range(countries) : ChosenOf("gdp_growth", c) # {}}
        /\ \A i \in Rows :
              LET c == result[i].country_code
                  ks == ChosenOf("gross_capital_formation", c)
                  ls == ChosenOf("employment_growth", c)
              IN  /\ IsMeanOf(result[i].avg_gdp_growth, ChosenOf("gdp_growth", c))
                  /\ IF ks # {}
                     THEN IsMeanOf(result[i].avg_capital_growth, ks)
                     ELSE result[i].avg_capital_growth
                              = IF copy_on_write THEN NaN ELSE [k |-> "fin", n |-> 3, d |-> 1]
                  /\ IF Cardinality(ls) >= 2
                     THEN result[i].avg_labor_growth
                              = mean(growth_rate(group_values(ls, c)))
                     ELSE result[i].avg_labor_growth
                              = IF /\ copy_on_write
                                   /\ "employment_growth" \in DOMAIN data
                                   /\ Chosen("employment_growth") # {}
                                THEN NaN ELSE [k |-> "fin", n |-> 1, d |-> 1]

\* C14 witness: the GDP growth series has a record of DEU inside the window
\* and a record of FRA before it only; FRA gets no row
C14_Witness ==
    /\ Done /\ path = "estimated"
    /\ \E v \in Values("gdp_growth") : Rec("FRA", 1985, v) \in data["gdp_growth"]
    /\ ~\E r \in data["gdp_growth"] : r.country_code = "FRA" /\ r.year >= 1990
    /\ HasRecord("gdp_growth", "DEU")
    /\ Len(result) = 1 /\ result[1].country_code = "DEU"

----------------------------------------------------------------------------
(* The decomposition of HPFilterUS.py *)

\* trend + cycle = x for one observation, as exact rationals
SumsTo(t, c, x) ==
    /\ IsFin(t) /\ IsFin(c) /\ IsFin(x)
    /\ t.d = c.d
    /\ (t.n + c.n) * x.d = x.n * t.d

\* the lambdas whose iteration of the loop has run
FilteredLambdas == {lambdas[j] : j \in 1..(lam_idx - 1)}

\* C11: for every lambda of the script's list that the loop has reached, the
\* stored trend and cycle have the length and the dates of the gap-free log
\* series that was decomposed, and trend[i] + cycle[i] equals its i-th value.
C11_TrendPlusCycle ==
    hp_pc \in {"filter", "plot"} =>
        /\ DOMAIN trends = FilteredLambdas
        /\ DOMAIN cycles = FilteredLambdas
        /\ \A i \in 1..Len(log_gdp) : IsFin(log_gdp[i].value)
        /\ \A lam \in FilteredLambdas :
              /\ Len(trends[lam]) = Len(log_gdp)
              /\ Len(cycles[lam]) = Len(log_gdp)
              /\ \A i \in 1..Len(log_gdp) :
                    /\ trends[lam][i].date = log_gdp[i].date
                    /\ cycles[lam][i].date = log_gdp[i].date
                    /\ SumsTo(trends[lam][i].value, cycles[lam][i].value, log_gdp[i].value)

\* a gap-free series of four observations that is not linear has been
\* decomposed for all three lambdas, with a cycle that is not zero and
\* trends that differ between lambdas
C11_Witness ==
    /\ hp_pc = "plot"
    /\ Len(fred_series) = 4
    /\ Len(log_gdp) = 4
    /\ DOMAIN trends = {10, 100, 1600}
    /\ \A lam \in {10, 100, 1600} : \E i \in 1..4 : cycles[lam][i].value.n # 0
    /\ trends[10] # trends[100]
    /\ trends[100] # trends[1600]

\* the series fred.get_series returned has a missing observation
HasMissing(s) == \E i \in 1..Len(s) : IsNaN(s[i].value)

\* C12: when the series has a missing value, or fewer than 4 observations
\* are left to decompose, no trend and no cycle is ever produced.
C12_RejectsInvalidSeries ==
    (HasMissing(fred_series) \/ Len(dropna(fred_series)) < 4) =>
        (DOMAIN trends = {} /\ DOMAIN cycles = {})
====
